---- MODULE Spec2Model ----
(***************************************************************************)
(* Model of server.py: the sensor ingestion handler (receive_sensor_data,  *)
(* with decrypt_data as its decoder) and the weather freshness cache       *)
(* (get_weather_data behind the /api/weather route).                       *)
(***************************************************************************)
EXTENDS Integers, Sequences, FiniteSets, TLC

(***************************************************************************)
(* Bounds of the model.                                                    *)
(***************************************************************************)
NThreads == 2
MaxCalls == 2
MaxTime == 1000
NBrowsers == 2
MaxSessions == 2
MaxPlainLen == 17
MaxDamagedLen == 3
MaxBlobLen == 33

\* server.py:46
WEATHER_CACHE_DURATION == 600

\* server.py:42
BLOCK_SIZE == 16

\* server.py:41, b'MySecretKey12345'
ENCRYPTION_KEY ==
    <<77, 121, 83, 101, 99, 114, 101, 116, 75, 101, 121, 49, 50, 51, 52, 53>>

Threads == 1..NThreads

\* seconds by which the wall clock advances between two observations
TickSteps == {300, 400}

\* request arguments of /api/weather, already formatted as f"{...}" prints
\* them: a missing lat/lon prints as None, a missing city is ''
Locations ==
    { [lat |-> "12.9", lon |-> "77.5", city |-> ""],
      [lat |-> "None", lon |-> "None", city |-> "Pune"] }

\* the value get_weather_data returns when it has no data
None == [none |-> TRUE]

\* outcomes of requests.get(url, timeout=10) and of reading its body
FetchOutcomes == {"ok", "non200", "raise", "badbody"}

VARIABLES
    weather_cache,  \* dict: cache_key -> <<weather_data, time stored>>
    now,            \* time.time()
    wpc,            \* per thread: the line get_weather_data is at
    wloc,           \* per thread: lat, lon, city of the call
    wread,          \* per thread: the tuple read at line 551
    wresp,          \* per thread: the response of requests.get
    wret,           \* per thread: what get_weather_data returned
    http,           \* per thread: status code /api/weather answered
    fetched,        \* per thread: external fetches made by the current call
    cold,           \* per thread: the call found no live entry
    nfetch,         \* number of external fetches sent so far
    ncalls,         \* number of get_weather_data calls started so far
    okfetch,        \* responses that arrived with status 200 and a full body
    ipc,            \* ingestion: "idle", or "responded" once the handler ran
    request,        \* the form of the ingestion request being served
    dbcall,         \* what the storage call of that request did
    result,         \* response, record handed to storage, printed source
    active_sessions,\* users table: user -> active_sessions
    session,        \* per browser: the Flask session (user_id, role)
    spc,            \* per browser: "idle", or inside login before its UPDATE
    slogin,         \* per browser: the user row login selected
    sop,            \* the statement the last step ran on the users table
    stale,          \* per browser: its session was opened before a reset
    dpc,            \* decoder: "idle", or "done" once decrypt_data returned
    din,            \* the encrypted_data given to decrypt_data, and its origin
    dout            \* what that call of decrypt_data left

wvars == <<weather_cache, now, wpc, wloc, wread, wresp, wret, http,
           fetched, cold, nfetch, ncalls, okfetch>>

ivars == <<ipc, request, dbcall, result>>

svars == <<active_sessions, session, spc, slogin, sop, stale>>

dvars == <<dpc, din, dout>>

vars == <<wvars, ivars, svars, dvars>>

----------------------------------------------------------------------------
(***************************************************************************)
(* Freshness cache                                                         *)
(***************************************************************************)

cache_key(lat, lon, city) ==
    IF city # "" THEN lat \o "_" \o lon \o "_" \o city
                 ELSE lat \o "_" \o lon

KeyOf(p) == cache_key(wloc[p].lat, wloc[p].lon, wloc[p].city)

NoEntry == <<None, 0>>
NoResp == [fid |-> 0, outcome |-> "none"]

\* CachePut rebuilding the dict from the one entry (every other key is lost)
CachePut_evict(cache, k, e) == [x \in {k} |-> e]

\* weather_cache[cache_key] = (weather_data, time.time())
CachePut(cache, k, e) ==
    [x \in DOMAIN cache \cup {k} |-> IF x = k THEN e ELSE cache[x]]

WInit ==
    /\ weather_cache = [k \in {} |-> NoEntry]
    /\ now = 0
    /\ wpc = [p \in Threads |-> "idle"]
    /\ wloc = [p \in Threads |-> [lat |-> "None", lon |-> "None", city |-> ""]]
    /\ wread = [p \in Threads |-> NoEntry]
    /\ wresp = [p \in Threads |-> NoResp]
    /\ wret = [p \in Threads |-> None]
    /\ http = [p \in Threads |-> 0]
    /\ fetched = [p \in Threads |-> 0]
    /\ cold = [p \in Threads |-> FALSE]
    /\ nfetch = 0
    /\ ncalls = 0
    /\ okfetch = {}

\* the wall clock advances
Tick(d) ==
    /\ now + d <= MaxTime
    /\ now' = now + d
    /\ UNCHANGED <<ivars, svars, dvars>>
    /\ UNCHANGED <<weather_cache, wpc, wloc, wread, wresp, wret, http,
                   fetched, cold, nfetch, ncalls, okfetch>>

\* /api/weather is requested: get_weather calls get_weather_data(lat, lon, city)
GetWeather(p, loc) ==
    /\ wpc[p] = "idle"
    /\ ncalls < MaxCalls
    /\ ncalls' = ncalls + 1
    /\ wloc' = [wloc EXCEPT ![p] = loc]
    /\ wpc' = [wpc EXCEPT ![p] = "L550"]
    /\ wread' = [wread EXCEPT ![p] = NoEntry]
    /\ wresp' = [wresp EXCEPT ![p] = NoResp]
    /\ wret' = [wret EXCEPT ![p] = None]
    /\ http' = [http EXCEPT ![p] = 0]
    /\ fetched' = [fetched EXCEPT ![p] = 0]
    /\ cold' = [cold EXCEPT ![p] = FALSE]
    /\ UNCHANGED <<ivars, svars, dvars>>
    /\ UNCHANGED <<weather_cache, now, nfetch, okfetch>>

\* what get_weather answers for the value get_weather_data returned
StatusFor(weather_data) == IF weather_data # None THEN 200 ELSE 503

\* return v from get_weather_data; get_weather turns it into the response
Return(p, v) ==
    /\ wret' = [wret EXCEPT ![p] = v]
    /\ http' = [http EXCEPT ![p] = StatusFor(v)]
    /\ wpc' = [wpc EXCEPT ![p] = "idle"]

\* if cache_key in weather_cache:
L550(p) ==
    /\ wpc[p] = "L550"
    /\ IF KeyOf(p) \in DOMAIN weather_cache
         THEN /\ wpc' = [wpc EXCEPT ![p] = "L551"]
              /\ UNCHANGED cold
         ELSE /\ wpc' = [wpc EXCEPT ![p] = "L562"]
              /\ cold' = [cold EXCEPT ![p] = TRUE]
    /\ UNCHANGED <<ivars, svars, dvars>>
    /\ UNCHANGED <<weather_cache, now, wloc, wread, wresp, wret, http,
                   fetched, nfetch, ncalls, okfetch>>

\* cached_data, cached_time = weather_cache[cache_key]
L551(p) ==
    /\ wpc[p] = "L551"
    /\ wread' = [wread EXCEPT ![p] = weather_cache[KeyOf(p)]]
    /\ wpc' = [wpc EXCEPT ![p] = "L552"]
    /\ UNCHANGED <<ivars, svars, dvars>>
    /\ UNCHANGED <<weather_cache, now, wloc, wresp, wret, http,
                   fetched, cold, nfetch, ncalls, okfetch>>

\* Live with the comparison turned round
Live_reversed(cached_time, t) == t - cached_time > WEATHER_CACHE_DURATION

\* if time.time() - cached_time < WEATHER_CACHE_DURATION: return cached_data
Live(cached_time, t) == t - cached_time < WEATHER_CACHE_DURATION

L552(p) ==
    /\ wpc[p] = "L552"
    /\ IF Live(wread[p][2], now)
         THEN /\ Return(p, wread[p][1])
              /\ UNCHANGED cold
         ELSE /\ wpc' = [wpc EXCEPT ![p] = "L562"]
              /\ cold' = [cold EXCEPT ![p] = TRUE]
              /\ UNCHANGED <<wret, http>>
    /\ UNCHANGED <<ivars, svars, dvars>>
    /\ UNCHANGED <<weather_cache, now, wloc, wread, wresp,
                   fetched, nfetch, ncalls, okfetch>>

\* response = requests.get(url, timeout=10): the request goes out
L562(p) ==
    /\ wpc[p] = "L562"
    /\ nfetch' = nfetch + 1
    /\ fetched' = [fetched EXCEPT ![p] = @ + 1]
    /\ wresp' = [wresp EXCEPT ![p] = [fid |-> nfetch + 1, outcome |-> "none"]]
    /\ wpc' = [wpc EXCEPT ![p] = "inflight"]
    /\ UNCHANGED <<ivars, svars, dvars>>
    /\ UNCHANGED <<weather_cache, now, wloc, wread, wret, http,
                   cold, ncalls, okfetch>>

\* the external service answers, or the call raises (timeout, no route)
Respond(p, o) ==
    /\ wpc[p] = "inflight"
    /\ wresp' = [wresp EXCEPT ![p].outcome = o]
    /\ okfetch' = IF o = "ok"
                    THEN okfetch \cup {[fid |-> wresp[p].fid, key |-> KeyOf(p)]}
                    ELSE okfetch
    /\ wpc' = [wpc EXCEPT ![p] = "L563"]
    /\ UNCHANGED <<ivars, svars, dvars>>
    /\ UNCHANGED <<weather_cache, now, wloc, wread, wret, http,
                   fetched, cold, nfetch, ncalls>>

\* L563 that returns the fetched value without caching it
L563_nostore(p) ==
    /\ wpc[p] = "L563"
    /\ IF wresp[p].outcome = "ok"
         THEN Return(p, [fid |-> wresp[p].fid, updated |-> now])
         ELSE Return(p, None)
    /\ UNCHANGED <<ivars, svars, dvars>>
    /\ UNCHANGED <<weather_cache, now, wloc, wread, wresp, fetched, cold,
                   nfetch, ncalls, okfetch>>

\* L563 that serves the stale entry it read when the fetch failed
L563_stale(p) ==
    /\ wpc[p] = "L563"
    /\ IF wresp[p].outcome = "ok"
         THEN LET weather_data == [fid |-> wresp[p].fid, updated |-> now]
              IN /\ weather_cache' =
                        CachePut(weather_cache, KeyOf(p), <<weather_data, now>>)
                 /\ Return(p, weather_data)
         ELSE /\ Return(p, wread[p][1])
              /\ UNCHANGED weather_cache
    /\ UNCHANGED <<ivars, svars, dvars>>
    /\ UNCHANGED <<now, wloc, wread, wresp, fetched, cold, nfetch, ncalls,
                   okfetch>>

\* L563 that caches whatever came back, a failure included
L563_negcache(p) ==
    /\ wpc[p] = "L563"
    /\ LET weather_data == IF wresp[p].outcome = "ok"
                             THEN [fid |-> wresp[p].fid, updated |-> now]
                             ELSE None
       IN /\ weather_cache' =
                 CachePut(weather_cache, KeyOf(p), <<weather_data, now>>)
          /\ Return(p, weather_data)
    /\ UNCHANGED <<ivars, svars, dvars>>
    /\ UNCHANGED <<now, wloc, wread, wresp, fetched, cold, nfetch, ncalls,
                   okfetch>>

\* L563 that goes back to the request when the fetch failed
L563_retry(p) ==
    /\ wpc[p] = "L563"
    /\ IF wresp[p].outcome = "ok"
         THEN LET weather_data == [fid |-> wresp[p].fid, updated |-> now]
              IN /\ weather_cache' =
                        CachePut(weather_cache, KeyOf(p), <<weather_data, now>>)
                 /\ Return(p, weather_data)
         ELSE /\ wpc' = [wpc EXCEPT ![p] = "L562"]
              /\ UNCHANGED <<weather_cache, wret, http>>
    /\ UNCHANGED <<ivars, svars, dvars>>
    /\ UNCHANGED <<now, wloc, wread, wresp, fetched, cold, nfetch, ncalls,
                   okfetch>>

\* lines 563-580: on status 200 build weather_data, cache it and return it;
\* otherwise (other status, exception, KeyError on the body) return None
L563(p) ==
    /\ wpc[p] = "L563"
    /\ IF wresp[p].outcome = "ok"
         THEN LET weather_data == [fid |-> wresp[p].fid, updated |-> now]
              IN /\ weather_cache' =
                        CachePut(weather_cache, KeyOf(p), <<weather_data, now>>)
                 /\ Return(p, weather_data)
         ELSE /\ Return(p, None)
              /\ UNCHANGED weather_cache
    /\ UNCHANGED <<ivars, svars, dvars>>
    /\ UNCHANGED <<now, wloc, wread, wresp, fetched, cold, nfetch, ncalls,
                   okfetch>>

----------------------------------------------------------------------------
(***************************************************************************)
(* Values of the ingestion path.  A form field or a JSON member is a       *)
(* record [k, v]; k tells what Python sees:                                *)
(*   "int"      the number v (an int, or a float with an integral value)   *)
(*   "half"     the float v + 0.5                                          *)
(*   "nan"      the float nan                                              *)
(*   "big"      a number beyond the range datetime.fromtimestamp accepts   *)
(*   "str"      a string holding the integer numeral v                     *)
(*   "strhalf"  a string holding the numeral v.5                           *)
(*   "strnan"   the string 'nan'                                           *)
(*   "strbig"   a string holding an integer numeral of the "big" range     *)
(*   "bad"      a value float() and int() reject (null, 'abc', a list)     *)
(*   "team"     a team name, "none" Python's None, "absent" a missing key, *)
(*   "raise"    the conversion raised.                                     *)
(***************************************************************************)
Val(k, v) == [k |-> k, v |-> v]
Num(v) == Val("int", v)
Half(v) == Val("half", v)
Str(v) == Val("str", v)
StrHalf(v) == Val("strhalf", v)
NaN == Val("nan", 0)
StrNaN == Val("strnan", 0)
Big == Val("big", 0)
StrBig == Val("strbig", 0)
Bad == Val("bad", 0)
Absent == Val("absent", 0)
PyNone == Val("none", 0)
Team(n) == Val("team", n)
Raised == Val("raise", 0)

\* dict.get(key, default)
GetOr(x, default) == IF x.k = "absent" THEN default ELSE x

\* float(x)
PyFloat(x) ==
    CASE x.k \in {"int", "half", "nan", "big"} -> x
      [] x.k = "str" -> Num(x.v)
      [] x.k = "strhalf" -> Half(x.v)
      [] x.k = "strnan" -> NaN
      [] x.k = "strbig" -> Big
      [] OTHER -> Raised

\* int(x): truncates a float toward zero, rejects nan and a string that is
\* not an integer numeral
PyInt(x) ==
    CASE x.k \in {"int", "big"} -> x
      [] x.k = "half" -> Num(IF x.v >= 0 THEN x.v ELSE x.v + 1)
      [] x.k = "str" -> Num(x.v)
      [] x.k = "strbig" -> Big
      [] OTHER -> Raised

\* x < c and x > c for a Python number x and an integer c
Lt(x, c) ==
    CASE x.k = "int" -> x.v < c
      [] x.k = "half" -> 2 * x.v + 1 < 2 * c
      [] OTHER -> FALSE
Gt(x, c) ==
    CASE x.k = "int" -> x.v > c
      [] x.k = "half" -> 2 * x.v + 1 > 2 * c
      [] x.k = "big" -> TRUE
      [] OTHER -> FALSE

\* if humidity < 0.0: humidity = 0.0
\* if humidity > 100.0: humidity = 100.0
Clamp(humidity) ==
    LET h1 == IF Lt(humidity, 0) THEN Num(0) ELSE humidity
    IN IF Gt(h1, 100) THEN Num(100) ELSE h1

\* the recovered payload, told by what json.loads makes of it
Text(j, te, hu, ti, tn) ==
    [j |-> j, temperature |-> te, humidity |-> hu, timestamp |-> ti,
     team_number |-> tn]
NoText == Text("None", Absent, Absent, Absent, Absent)
EmptyText == Text("empty", Absent, Absent, Absent, Absent)
Malformed == Text("malformed", Absent, Absent, Absent, Absent)
NonObject == Text("nonobject", Absent, Absent, Absent, Absent)

\* decrypt_data, by the stage at which it leaves: base64.b64decode raises,
\* the blob is shorter than an IV, the ciphertext is not block aligned, or
\* decryption, padding removal and UTF-8 decoding yield a string
decrypt_data(encrypted_data) ==
    IF ~encrypted_data.b64ok THEN NoText
    ELSE IF encrypted_data.bloblen < 16 THEN NoText
    ELSE IF (encrypted_data.bloblen - 16) % 16 # 0 THEN NoText
    ELSE encrypted_data.plain

\* truth value of a str or None
Truthy(s) == s.j \notin {"None", "empty"}

Fields(tn, te, hu, ti, raised) ==
    [team_number |-> tn, temperature |-> te, humidity |-> hu,
     timestamp |-> ti, raised |-> raised]

\* Override with the absent members replaced by defaults instead of the raw
\* fields (wholesale replacement)
Override_wholesale(cur, decrypted_json) ==
    IF ~Truthy(decrypted_json) THEN cur
    ELSE IF decrypted_json.j = "malformed" THEN cur
    ELSE IF decrypted_json.j = "nonobject" THEN [cur EXCEPT !.raised = TRUE]
    ELSE LET temperature == PyFloat(GetOr(decrypted_json.temperature, Num(0)))
             humidity == PyFloat(GetOr(decrypted_json.humidity, Num(0)))
             timestamp == PyInt(GetOr(decrypted_json.timestamp, Num(0)))
             team_number == GetOr(decrypted_json.team_number, PyNone)
         IN IF Raised \in {temperature, humidity, timestamp}
              THEN [cur EXCEPT !.raised = TRUE]
              ELSE Fields(team_number, temperature, Clamp(humidity),
                          timestamp, FALSE)

\* Override with the conversion errors swallowed like the JSON error is: the
\* members assigned before the failing conversion stay overridden
Override_partial(cur, decrypted_json) ==
    IF ~Truthy(decrypted_json) THEN cur
    ELSE IF decrypted_json.j = "malformed" THEN cur
    ELSE IF decrypted_json.j = "nonobject" THEN cur
    ELSE LET temperature ==
                 PyFloat(GetOr(decrypted_json.temperature, cur.temperature))
             humidity == PyFloat(GetOr(decrypted_json.humidity, cur.humidity))
             timestamp == PyInt(GetOr(decrypted_json.timestamp, cur.timestamp))
             team_number == GetOr(decrypted_json.team_number, cur.team_number)
         IN IF temperature = Raised THEN cur
            ELSE IF humidity = Raised
              THEN [cur EXCEPT !.temperature = temperature]
            ELSE IF timestamp = Raised
              THEN [cur EXCEPT !.temperature = temperature,
                               !.humidity = humidity]
            ELSE Fields(team_number, temperature, Clamp(humidity),
                        timestamp, FALSE)

\* lines 346-363: the override of the raw fields by the decrypted record.
\* raised tells that an exception other than JSONDecodeError left the block.
Override(cur, decrypted_json) ==
    IF ~Truthy(decrypted_json) THEN cur
    ELSE IF decrypted_json.j = "malformed" THEN cur
    ELSE IF decrypted_json.j = "nonobject" THEN [cur EXCEPT !.raised = TRUE]
    ELSE LET temperature ==
                 PyFloat(GetOr(decrypted_json.temperature, cur.temperature))
             humidity == PyFloat(GetOr(decrypted_json.humidity, cur.humidity))
             timestamp == PyInt(GetOr(decrypted_json.timestamp, cur.timestamp))
             team_number == GetOr(decrypted_json.team_number, cur.team_number)
         IN IF Raised \in {temperature, humidity, timestamp}
              THEN [cur EXCEPT !.raised = TRUE]
              ELSE Fields(team_number, temperature, Clamp(humidity),
                          timestamp, FALSE)

\* request.form.get('is_encrypted', 'false').lower() == 'true'
IsTrue(text) == text \in {"true", "True"}

NoRow == Fields(Absent, Absent, Absent, Absent, FALSE)
Row(f) == Fields(f.team_number, f.temperature, f.humidity, f.timestamp, FALSE)

Result(status, code, row, source) ==
    [status |-> status, code |-> code, handed |-> row, source |-> source]

\* Source telling "decrypted" only when the decoder gave a usable string
Source_decoded(is_encrypted, encrypted_data) ==
    IF is_encrypted /\ encrypted_data.nonempty
          /\ Truthy(decrypt_data(encrypted_data))
      THEN "decrypted" ELSE "plaintext"

\* "source": "decrypted" if is_encrypted and encrypted_data else "plaintext"
Source(is_encrypted, encrypted_data) ==
    IF is_encrypted /\ encrypted_data.nonempty
      THEN "decrypted" ELSE "plaintext"

\* receive_sensor_data for one request; db is what the storage call does:
\* "ok", "error" (execute or commit raises) or "noconnect" (get_db_connection
\* ends the process with sys.exit)
receive_sensor_data(form, db) ==
    LET team_number == GetOr(form.team_number, PyNone)
        temperature == PyFloat(GetOr(form.temperature, Num(0)))
        humidity == PyFloat(GetOr(form.humidity, Num(0)))
        timestamp == PyInt(GetOr(form.timestamp, Num(0)))
        is_encrypted == IsTrue(form.is_encrypted)
        encrypted_data == form.encrypted_data
        raw == Fields(team_number, temperature, Clamp(humidity), timestamp,
                      FALSE)
        rec == IF is_encrypted /\ encrypted_data.nonempty
                 THEN Override(raw, decrypt_data(encrypted_data))
                 ELSE raw
        source == Source(is_encrypted, encrypted_data)
    IN IF Raised \in {temperature, humidity, timestamp}
         THEN Result("error", 500, NoRow, "")
       ELSE IF rec.raised THEN Result("error", 500, NoRow, "")
       ELSE IF rec.timestamp.k = "big" THEN Result("error", 500, NoRow, "")
       ELSE IF db = "noconnect" THEN Result("exit", 0, NoRow, "")
       ELSE IF db = "error" THEN Result("error", 500, Row(rec), "")
       ELSE Result("success", 200, Row(rec), source)

----------------------------------------------------------------------------
(***************************************************************************)
(* Ingestion requests                                                      *)
(***************************************************************************)
Enc(nonempty, b64ok, bloblen, plain) ==
    [nonempty |-> nonempty, b64ok |-> b64ok, bloblen |-> bloblen,
     plain |-> plain]

JsonTemperatures == {Absent, Num(30), Str(30), Bad}
JsonHumidities == {Absent, Num(60), Num(-20), Num(170), NaN, Bad}
JsonTimestamps == {Absent, Num(9), Half(9), Big, Bad}
JsonTeams == {Absent, Team(2)}

Texts ==
    {EmptyText, Malformed, NonObject} \cup
    {Text("object", te, hu, ti, tn) :
        te \in JsonTemperatures, hu \in JsonHumidities,
        ti \in JsonTimestamps, tn \in JsonTeams}

\* blob lengths decrypt_data turns away: shorter than an IV, not block aligned
RejectedLens == {15, 24}

EncodedPayloads ==
    {Enc(FALSE, TRUE, 0, NoText), Enc(TRUE, FALSE, 0, NoText),
     Enc(TRUE, TRUE, 16, EmptyText)}
    \cup {Enc(TRUE, TRUE, n, NoText) : n \in RejectedLens}
    \cup {Enc(TRUE, TRUE, 32, t) : t \in Texts}

FormTemperatures == {Absent, Str(21), Bad}
FormHumidities == {Absent, Str(-5), Str(50), Str(150), StrNaN, Bad}
FormTimestamps == {Absent, Str(7), StrBig, Bad}
FormTeams == {Absent, Team(1)}
FormFlags == {"absent", "True", "false"}

Forms ==
    [team_number : FormTeams, temperature : FormTemperatures,
     humidity : FormHumidities, timestamp : FormTimestamps,
     is_encrypted : FormFlags, encrypted_data : EncodedPayloads]

DbOutcomes == {"ok", "error", "noconnect"}

NoForm ==
    [team_number |-> Absent, temperature |-> Absent, humidity |-> Absent,
     timestamp |-> Absent, is_encrypted |-> "absent",
     encrypted_data |-> Enc(FALSE, TRUE, 0, NoText)]
NoResult == Result("none", 0, NoRow, "")

IInit ==
    /\ ipc = "idle"
    /\ request = NoForm
    /\ dbcall = "ok"
    /\ result = NoResult

\* POST /api/sensor-data
ReceiveSensorData(form, db) ==
    /\ ipc = "idle"
    /\ request' = form
    /\ dbcall' = db
    /\ result' = receive_sensor_data(form, db)
    /\ ipc' = "responded"
    /\ UNCHANGED <<wvars, svars, dvars>>

\* the response has gone back to the device; the next request can come
Deliver ==
    /\ ipc = "responded"
    /\ ipc' = "idle"
    /\ request' = NoForm
    /\ dbcall' = "ok"
    /\ result' = NoResult
    /\ UNCHANGED <<wvars, svars, dvars>>

INext ==
    \/ /\ ipc = "idle"
       /\ \E form \in Forms, db \in DbOutcomes : ReceiveSensorData(form, db)
    \/ Deliver

----------------------------------------------------------------------------
(***************************************************************************)
(* Properties of the ingestion path                                        *)
(***************************************************************************)
Served == ipc = "responded"
Stored == Served /\ result.handed # NoRow

\* the raw fields of the request being served, as lines 330-341 leave them
RawTeam == GetOr(request.team_number, PyNone)
RawTemperature == PyFloat(GetOr(request.temperature, Num(0)))
RawHumidity == PyFloat(GetOr(request.humidity, Num(0)))
RawTimestamp == PyInt(GetOr(request.timestamp, Num(0)))
RawParses == Raised \notin {RawTemperature, RawHumidity, RawTimestamp}

\* the decoder is called: is_encrypted and encrypted_data
Attempted == request.is_encrypted = "True" /\ request.encrypted_data.nonempty
Recovered == decrypt_data(request.encrypted_data)

\* h is a number of the interval [0, 100]
InRange(h) ==
    \/ h.k = "int" /\ 0 <= h.v /\ h.v <= 100
    \/ h.k = "half" /\ 0 <= h.v /\ h.v < 100

\* a and b are the same number
SameNumber(a, b) == PyFloat(a) # Raised /\ PyFloat(a) = PyFloat(b)

\* C1: a request whose raw numeric fields parse and whose storage call
\* succeeds is answered with the success result, whatever encrypted_data
\* holds.  (The raw timestamp is one datetime.fromtimestamp accepts, so that
\* the storage call is reached on the raw fields alone.)
C1_DecodeNeverFails ==
    (Served /\ RawParses /\ RawTimestamp # Big /\ dbcall = "ok")
        => result.status = "success"

\* C2: every record handed to storage has its humidity within [0, 100]
C2_HumidityInRange == Stored => InRange(result.handed.humidity)

\* the part of C2 the code keeps: a humidity that is a number other than nan
\* on both sides reaches storage within [0, 100]
C2_NumbersInRange ==
    (Stored /\ RawHumidity # NaN
            /\ (Attempted => Recovered.humidity # NaN))
        => InRange(result.handed.humidity)

\* the recovered payload parses as a structured record
Structured == Attempted /\ Recovered.j = "object"

\* C9 as stated: with a structured record, each stored field is the
\* record's value when the record has the field and the raw value (the raw
\* humidity clamped) when it has not
C9_FieldTakesRecordValue ==
    (Stored /\ Structured) =>
        /\ IF Recovered.temperature = Absent
             THEN result.handed.temperature = RawTemperature
             ELSE SameNumber(result.handed.temperature, Recovered.temperature)
        /\ IF Recovered.humidity = Absent
             THEN result.handed.humidity = Clamp(RawHumidity)
             ELSE SameNumber(result.handed.humidity, Recovered.humidity)
        /\ IF Recovered.timestamp = Absent
             THEN result.handed.timestamp = RawTimestamp
             ELSE SameNumber(result.handed.timestamp, Recovered.timestamp)
        /\ IF Recovered.team_number = Absent
             THEN result.handed.team_number = RawTeam
             ELSE result.handed.team_number = Recovered.team_number

\* C9 (amended): with a structured record, each stored field is the record's
\* value as the handler converts it (float() for temperature and humidity,
\* the humidity then clamped to [0, 100]; int(), which truncates, for the
\* timestamp; team_number as it is) when the record has the field, and the
\* raw value (the raw humidity clamped) when it has not
C9_PerFieldOverride ==
    (Stored /\ Structured) =>
        /\ result.handed.temperature =
               IF Recovered.temperature = Absent
                 THEN RawTemperature ELSE PyFloat(Recovered.temperature)
        /\ result.handed.humidity =
               IF Recovered.humidity = Absent
                 THEN Clamp(RawHumidity)
                 ELSE Clamp(PyFloat(Recovered.humidity))
        /\ result.handed.timestamp =
               IF Recovered.timestamp = Absent
                 THEN RawTimestamp ELSE PyInt(Recovered.timestamp)
        /\ result.handed.team_number =
               IF Recovered.team_number = Absent
                 THEN RawTeam ELSE Recovered.team_number

\* a structured record without humidity, over a raw humidity out of range,
\* has been stored with its other fields overriding
C9_Witness ==
    /\ Stored /\ Structured /\ result.status = "success"
    /\ Recovered.humidity = Absent /\ Recovered.temperature # Absent
    /\ RawHumidity = Num(150)
    /\ result.handed.humidity = Num(100)
    /\ result.handed.temperature # RawTemperature

\* decrypt_data reports failure (None, or the empty string the handler
\* takes for one)
DecryptFailed == Attempted /\ ~Truthy(Recovered)

\* the recovered payload is not the structured record: not JSON, not an
\* object, or an object with a member float() or int() rejects
ParseFailed ==
    /\ Attempted /\ Truthy(Recovered)
    /\ \/ Recovered.j \in {"malformed", "nonobject"}
       \/ Raised \in
            {PyFloat(GetOr(Recovered.temperature, Num(0))),
             PyFloat(GetOr(Recovered.humidity, Num(0))),
             PyInt(GetOr(Recovered.timestamp, Num(0)))}

\* C10: when decrypt_data fails or the recovered payload fails structured
\* parsing, a record handed to storage carries exactly the raw fields, the
\* humidity clamped: no override, whole or partial, is stored
C10_FailureKeepsRaw ==
    (Stored /\ (DecryptFailed \/ ParseFailed)) =>
        /\ result.handed.team_number = RawTeam
        /\ result.handed.temperature = RawTemperature
        /\ result.handed.humidity = Clamp(RawHumidity)
        /\ result.handed.timestamp = RawTimestamp

\* a payload that is not JSON has been stored as the raw fields, the raw
\* humidity 150 clamped to 100
C10_Witness ==
    /\ Stored /\ ParseFailed /\ result.status = "success"
    /\ Recovered.j = "malformed"
    /\ RawHumidity = Num(150)
    /\ result.handed.humidity = Num(100)
    /\ result.handed.team_number = Team(1)

\* C11: the source of the record the handler produces is "decrypted"
\* exactly when is_encrypted is true and encrypted_data is not empty, and
\* "plaintext" otherwise, whether or not decrypt_data and the structured
\* parse succeeded
C11_SourceFollowsFlagAndPayload ==
    (Served /\ result.status = "success") =>
        /\ result.source \in {"decrypted", "plaintext"}
        /\ result.source = "decrypted" <=> Attempted

\* a request flagged encrypted whose payload decrypt_data turned away has
\* been recorded with the source "decrypted"
C11_Witness ==
    /\ Served /\ result.status = "success"
    /\ Attempted /\ DecryptFailed
    /\ request.encrypted_data.bloblen = 15
    /\ result.source = "decrypted"

----------------------------------------------------------------------------
(***************************************************************************)
(* Properties of the freshness cache                                       *)
(***************************************************************************)
\* thread p leaves get_weather_data in this step
Returns(p) == wpc[p] # "idle" /\ wpc'[p] = "idle"

\* thread p is past line 552 in this step
Decides(p) == wpc[p] = "L552" /\ wpc'[p] # "L552"

\* C3: a call that reads an entry younger than 600 seconds returns the
\* entry's stored value, fetches nothing and writes nothing to the cache
C3_HitReturnsCached ==
    [][\A p \in Threads :
          (Decides(p) /\ now - wread[p][2] < 600) =>
              /\ Returns(p)
              /\ wret'[p] = wread[p][1]
              /\ http'[p] = 200
              /\ fetched'[p] = 0
              /\ nfetch' = nfetch
              /\ weather_cache' = weather_cache]_vars

\* an entry stored at t=0 has been returned by a lookup at t=300
C3_Witness ==
    \E p \in Threads :
        /\ wpc[p] = "idle" /\ http[p] = 200 /\ fetched[p] = 0
        /\ now = 300
        /\ wread[p][2] = 0
        /\ wret[p] = wread[p][1]
        /\ weather_cache[KeyOf(p)] = wread[p]

\* C4: a call that finds no entry, or an entry of age 600 seconds or more,
\* sends one external fetch and never a second one; when that fetch
\* succeeds the entry of the key becomes (fetched value, current time) and
\* the fetched value is returned
C4_MissFetchesOnceAndStores ==
    [][\A p \in Threads :
            /\ fetched'[p] <= 1
            /\ (cold'[p] /\ wpc'[p] \in {"inflight", "L563", "idle"})
                   => fetched'[p] = 1
            /\ (wpc[p] = "L550" /\ wpc'[p] # "L550"
                  /\ KeyOf(p) \notin DOMAIN weather_cache)
                   => (wpc'[p] = "L562" /\ cold'[p])
            /\ (Decides(p) /\ now - wread[p][2] >= 600)
                   => (wpc'[p] = "L562" /\ cold'[p])
            /\ (wpc[p] = "L562" /\ wpc'[p] # "L562")
                   => (nfetch' = nfetch + 1 /\ fetched'[p] = 1)
            /\ (Returns(p) /\ wresp[p].outcome = "ok")
                   => /\ wret'[p].fid = wresp[p].fid
                      /\ KeyOf(p) \in DOMAIN weather_cache'
                      /\ weather_cache'[KeyOf(p)] = <<wret'[p], now>>
                      /\ http'[p] = 200]_vars

\* an entry stored at t=0 was found stale by a lookup at t=700, which
\* fetched once and stored the new value at t=700
C4_Witness ==
    \E p \in Threads :
        /\ wpc[p] = "idle" /\ cold[p] /\ fetched[p] = 1
        /\ wread[p] # NoEntry /\ wread[p][2] = 0
        /\ now = 700
        /\ wret[p] # None /\ wret[p] # wread[p][1]
        /\ weather_cache[KeyOf(p)] = <<wret[p], 700>>

\* C5: when the fetch fails (exception, status other than 200) the call
\* leaves the cache as it is, returns the unavailable result and not the
\* stale value, and /api/weather answers 503; no step of a call other than
\* the one that follows a successful fetch writes to the cache
C5_FailedFetchLeavesCache ==
    [][/\ \A p \in Threads :
            (Returns(p) /\ wresp[p].fid # 0 /\ wresp[p].outcome # "ok") =>
                /\ weather_cache' = weather_cache
                /\ wret'[p] = None
                /\ http'[p] = 503
       /\ (weather_cache' # weather_cache) =>
            \E p \in Threads : Returns(p) /\ wresp[p].outcome = "ok"]_vars

\* a call found a stale entry, its fetch failed, it answered 503 and the
\* stale entry is still the one in the cache
C5_Witness ==
    \E p \in Threads :
        /\ wpc[p] = "idle" /\ http[p] = 503 /\ fetched[p] = 1
        /\ wresp[p].outcome \in {"non200", "raise"}
        /\ wread[p] # NoEntry
        /\ now - wread[p][2] >= 600
        /\ weather_cache[KeyOf(p)] = wread[p]

\* C6: the entry of a key is absent or is the (value, time) pair one
\* successful fetch for that key wrote: its value is that fetch's value and
\* its time the time that value was built
C6_EntryFromOneSuccessfulFetch ==
    \A k \in DOMAIN weather_cache :
        /\ weather_cache[k][1] # None
        /\ [fid |-> weather_cache[k][1].fid, key |-> k] \in okfetch
        /\ weather_cache[k][2] = weather_cache[k][1].updated

\* two calls for the same cold key both fetched at the same time and both
\* succeeded; the entry is the pair one of them wrote
C6_Witness ==
    \E p, q \in Threads :
        /\ p # q /\ KeyOf(p) = KeyOf(q)
        /\ wpc[p] = "idle" /\ wpc[q] = "idle"
        /\ cold[p] /\ cold[q] /\ wread[p] = NoEntry /\ wread[q] = NoEntry
        /\ wresp[p].outcome = "ok" /\ wresp[q].outcome = "ok"
        /\ wret[p] # wret[q]
        /\ weather_cache[KeyOf(p)][1] = wret[q]

\* the next step of the call thread q is in
StepOf(q) ==
    \/ L550(q) \/ L551(q) \/ L552(q) \/ L562(q) \/ L563(q)
    \/ \E o \in FetchOutcomes : Respond(q, o)

\* C7: the external fetches are at most as many as the calls, one at most
\* for each call and exactly one for a call that found no live entry; and
\* while a call waits for its fetch every other call can take its next step
C7_BoundedUnserializedFetches ==
    /\ nfetch <= ncalls
    /\ \A p \in Threads :
        /\ fetched[p] <= 1
        /\ (cold[p] /\ wpc[p] \in {"inflight", "L563", "idle"})
               => fetched[p] = 1
        /\ wpc[p] = "inflight" =>
               \A q \in Threads \ {p} : wpc[q] # "idle" => ENABLED StepOf(q)

\* every thread is waiting for its own fetch of the same cold key
C7_Witness ==
    /\ \A p \in Threads : wpc[p] = "inflight" /\ cold[p] /\ wread[p] = NoEntry
    /\ \A p, q \in Threads : KeyOf(p) = KeyOf(q)
    /\ nfetch = NThreads

\* C8: the keys of weather_cache never shrink, and the entry of a key
\* changes only in the step that follows a successful fetch of a call for
\* that key
C8_EntriesChangeOnlyOnOwnFetch ==
    [][/\ DOMAIN weather_cache \subseteq DOMAIN weather_cache'
       /\ \A k \in DOMAIN weather_cache' :
            (k \notin DOMAIN weather_cache
                \/ weather_cache'[k] # weather_cache[k]) =>
                \E p \in Threads :
                    /\ Returns(p) /\ wresp[p].outcome = "ok"
                    /\ KeyOf(p) = k]_vars

\* both keys are cached, one entry older than the other, after a call for
\* one key stored its value while the other key's entry stayed
C8_Witness ==
    /\ Cardinality(DOMAIN weather_cache) = 2
    /\ \E k1, k2 \in DOMAIN weather_cache :
          weather_cache[k1][2] < weather_cache[k2][2]
    /\ \E p \in Threads :
          /\ wpc[p] = "idle" /\ KeyOf(p) \in DOMAIN weather_cache
          /\ weather_cache[KeyOf(p)][1] = wret[p]

----------------------------------------------------------------------------
(***************************************************************************)
(* decrypt_data on characters and bytes.  A str is a sequence of code      *)
(* points, a bytes value a sequence of numbers 0..255.                     *)
(***************************************************************************)
Last(q) == q[Len(q)]
Front(q) == SubSeq(q, 1, Len(q) - 1)
Rep(x, n) == [i \in 1..n |-> x]
\* the least member of a non-empty set of positions
First(S) == CHOOSE i \in S : \A j \in S : i <= j

\* U+FFFD, what errors='replace' puts for bytes that are not UTF-8
REPLACEMENT == 65533

HexVal(c) ==
    CASE c \in 48..57 -> c - 48
      [] c \in 65..70 -> c - 55
      [] c \in 97..102 -> c - 87
      [] OTHER -> -1

\* bytes.decode('utf-8', errors='replace') for one- and two-byte sequences;
\* any other byte of 128 or more is replaced by U+FFFD
RECURSIVE Utf8Decode(_)
Utf8Decode(b) ==
    IF \A i \in 1..Len(b) : b[i] < 128 THEN b
    ELSE LET k == First({i \in 1..Len(b) : b[i] >= 128})
         IN SubSeq(b, 1, k - 1) \o
            (IF b[k] \in 194..223 /\ Len(b) > k /\ b[k + 1] \in 128..191
               THEN <<((b[k] - 192) * 64) + (b[k + 1] - 128)>>
                        \o Utf8Decode(SubSeq(b, k + 2, Len(b)))
               ELSE <<REPLACEMENT>> \o Utf8Decode(SubSeq(b, k + 1, Len(b))))

\* urllib.parse.unquote: each run of %XX escapes is taken as bytes and
\* decoded as UTF-8 with replacement; a % not followed by two hex digits
\* stays
RECURSIVE EscapeRun(_)
EscapeRun(t) ==
    IF Len(t) >= 3 /\ t[1] = 37 /\ HexVal(t[2]) >= 0 /\ HexVal(t[3]) >= 0
      THEN LET r == EscapeRun(SubSeq(t, 4, Len(t)))
           IN [bytes |-> <<(16 * HexVal(t[2])) + HexVal(t[3])>> \o r.bytes,
               rest |-> r.rest]
      ELSE [bytes |-> <<>>, rest |-> t]

RECURSIVE unquote(_)
unquote(t) ==
    IF \A i \in 1..Len(t) : t[i] # 37 THEN t
    ELSE LET k == First({i \in 1..Len(t) : t[i] = 37})
             r == EscapeRun(SubSeq(t, k, Len(t)))
         IN SubSeq(t, 1, k - 1) \o
            (IF r.bytes # <<>> THEN Utf8Decode(r.bytes) \o unquote(r.rest)
             ELSE <<37>> \o unquote(SubSeq(t, k + 1, Len(t))))

\* the characters str.strip() removes
IsSpace(c) == c \in {9, 10, 11, 12, 13, 28, 29, 30, 31, 32, 133, 160}

RECURSIVE LStrip(_)
LStrip(t) == IF t # <<>> /\ IsSpace(t[1]) THEN LStrip(Tail(t)) ELSE t
RECURSIVE RStrip(_)
RStrip(t) == IF t # <<>> /\ IsSpace(Last(t)) THEN RStrip(Front(t)) ELSE t

\* str.strip()
strip(t) == RStrip(LStrip(t))

\* str.replace(old, new) for a single character old; new is a str
RECURSIVE replace(_, _, _)
replace(t, old, new) ==
    IF \A i \in 1..Len(t) : t[i] # old THEN t
    ELSE LET k == First({i \in 1..Len(t) : t[i] = old})
         IN SubSeq(t, 1, k - 1) \o new
                \o replace(SubSeq(t, k + 1, Len(t)), old, new)

\* line 116: strip().replace('\n', '').replace('\r', '').replace(' ', '+')
Clean(t) ==
    replace(replace(replace(strip(t), 10, <<>>), 13, <<>>), 32, <<43>>)

\* lines 119-122: pad with '=' to a multiple of 4
PadBase64(t) ==
    IF Len(t) % 4 # 0 THEN t \o Rep(61, 4 - (Len(t) % 4)) ELSE t

\* the value of a character of the base64 alphabet, 64 for any other
B64Index(c) ==
    CASE c \in 65..90 -> c - 65
      [] c \in 97..122 -> c - 71
      [] c \in 48..57 -> c + 4
      [] c = 43 -> 62
      [] c = 47 -> 63
      [] OTHER -> 64

\* binascii.a2b_base64 without strict mode: characters outside the alphabet
\* are skipped, a complete pad sequence ends the input, leftover data
\* characters are an error
RECURSIVE A2b(_, _, _, _, _)
A2b(t, quad_pos, leftchar, pads, out) ==
    IF t = <<>>
      THEN [ok |-> quad_pos = 0, bytes |-> out]
    ELSE IF t[1] = 61
      THEN IF quad_pos >= 2 /\ quad_pos + pads + 1 >= 4
             THEN [ok |-> TRUE, bytes |-> out]
             ELSE A2b(Tail(t), quad_pos, leftchar,
                      IF quad_pos >= 2 THEN pads + 1 ELSE pads, out)
    ELSE LET v == B64Index(t[1])
         IN IF v >= 64 THEN A2b(Tail(t), quad_pos, leftchar, pads, out)
            ELSE CASE quad_pos = 0 -> A2b(Tail(t), 1, v, 0, out)
                   [] quad_pos = 1 ->
                        A2b(Tail(t), 2, v % 16, 0,
                            Append(out, (leftchar * 4) + (v \div 16)))
                   [] quad_pos = 2 ->
                        A2b(Tail(t), 3, v % 4, 0,
                            Append(out, (leftchar * 16) + (v \div 4)))
                   [] OTHER ->
                        A2b(Tail(t), 0, 0, 0, Append(out, (leftchar * 64) + v))

\* how many alphabet characters t begins with
LeadingData(t) ==
    IF \A i \in 1..Len(t) : B64Index(t[i]) < 64 THEN Len(t)
    ELSE First({i \in 1..Len(t) : B64Index(t[i]) >= 64}) - 1

\* what A2b puts out for n whole groups of four alphabet characters at the
\* start of t, after which it is back at quad_pos 0
Quads(t, n) ==
    [i \in 1..(3 * n) |->
        LET g == (i - 1) \div 3
            k == (i - 1) % 3
            a == B64Index(t[(4 * g) + k + 1])
            b == B64Index(t[(4 * g) + k + 2])
        IN CASE k = 0 -> (a * 4) + (b \div 16)
             [] k = 1 -> ((a % 16) * 16) + (b \div 4)
             [] OTHER -> ((a % 4) * 64) + b]

\* base64.b64decode(s) for a str s: a character that is not ASCII is a
\* ValueError
b64decode(t) ==
    IF \E i \in 1..Len(t) : t[i] >= 128
      THEN [ok |-> FALSE, bytes |-> <<>>]
      ELSE LET n == LeadingData(t) \div 4
           IN A2b(SubSeq(t, (4 * n) + 1, Len(t)), 0, 0, 0,
                  SubSeq(Quads(t, n), 1, 3 * n))

\* a xor b on bytes
XorBit(a, b, w) == (((a \div w) + (b \div w)) % 2) * w
Xor(a, b) ==
    XorBit(a, b, 1) + XorBit(a, b, 2) + XorBit(a, b, 4) + XorBit(a, b, 8)
        + XorBit(a, b, 16) + XorBit(a, b, 32) + XorBit(a, b, 64)
        + XorBit(a, b, 128)
XorBlock(x, y) == [i \in 1..BLOCK_SIZE |-> Xor(x[i], y[i])]

\* The block cipher.  AES-128 is a keyed permutation of the 16-byte blocks;
\* it is stood for by one such permutation: the bytes rotated by one place
\* and the key added, with DecryptBlock its inverse.
EncryptBlock(x) ==
    [i \in 1..BLOCK_SIZE |->
        (x[(i % BLOCK_SIZE) + 1] + ENCRYPTION_KEY[i]) % 256]
DecryptBlock(y) ==
    [i \in 1..BLOCK_SIZE |->
        LET j == ((i + BLOCK_SIZE - 2) % BLOCK_SIZE) + 1
        IN (y[j] + 256 - ENCRYPTION_KEY[j]) % 256]

\* cipher.decrypt(ciphertext) in CBC mode, for whole blocks
RECURSIVE CbcDecrypt(_, _)
CbcDecrypt(ciphertext, prev) ==
    IF ciphertext = <<>> THEN <<>>
    ELSE LET block == SubSeq(ciphertext, 1, BLOCK_SIZE)
         IN XorBlock(DecryptBlock(block), prev)
                \o CbcDecrypt(SubSeq(ciphertext, BLOCK_SIZE + 1,
                                     Len(ciphertext)), block)

\* Crypto.Util.Padding.unpad(data, BLOCK_SIZE): ok is FALSE where it raises
\* ValueError
unpad(data) ==
    LET n == Last(data)
    IN IF data = <<>> \/ Len(data) % BLOCK_SIZE # 0
         THEN [ok |-> FALSE, bytes |-> <<>>]
       ELSE IF n < 1 \/ n > (IF BLOCK_SIZE < Len(data) THEN BLOCK_SIZE
                                                       ELSE Len(data))
         THEN [ok |-> FALSE, bytes |-> <<>>]
       ELSE IF \E i \in (Len(data) - n + 1)..Len(data) : data[i] # n
         THEN [ok |-> FALSE, bytes |-> <<>>]
       ELSE [ok |-> TRUE, bytes |-> SubSeq(data, 1, Len(data) - n)]

\* bytes.rstrip(b'\x00')
RECURSIVE RStripZero(_)
RStripZero(b) == IF b # <<>> /\ Last(b) = 0 THEN RStripZero(Front(b)) ELSE b

\* lines 160-165 without the rstrip of line 160
ManualUnpad_keepzeros(decrypted_padded) ==
    IF Len(decrypted_padded) > 0
      THEN LET padding_length == Last(decrypted_padded)
           IN IF padding_length <= 16 /\ padding_length > 0
                THEN SubSeq(decrypted_padded, 1,
                            Len(decrypted_padded) - padding_length)
                ELSE decrypted_padded
      ELSE decrypted_padded

\* lines 160-165: the manual removal after unpad raised
ManualUnpad(decrypted_padded) ==
    LET decrypted == RStripZero(decrypted_padded)
    IN IF Len(decrypted) > 0
         THEN LET padding_length == Last(decrypted)
              IN IF padding_length <= 16 /\ padding_length > 0
                   THEN SubSeq(decrypted, 1, Len(decrypted) - padding_length)
                   ELSE decrypted
         ELSE decrypted

\* lines 154-166: unpad, and the manual removal when it raises ValueError
RemovePadding(decrypted_padded) ==
    IF unpad(decrypted_padded).ok THEN unpad(decrypted_padded).bytes
    ELSE ManualUnpad(decrypted_padded)

\* line 130 with <= for <
TooShort_orequal(combined_data) == Len(combined_data) <= 16

\* line 130: if len(combined_data) < 16
TooShort(combined_data) == Len(combined_data) < 16

\* line 141 never turning a ciphertext away
Misaligned_never(ciphertext) == FALSE

\* line 141: if len(ciphertext) % 16 != 0
Misaligned(ciphertext) == Len(ciphertext) % 16 # 0

\* line 135 forgetting the transmitted IV
IvOf_zero(combined_data) == Rep(0, 16)

\* line 135: iv = combined_data[:16]
IvOf(combined_data) == SubSeq(combined_data, 1, 16)

\* what a call of decrypt_data leaves: the value returned (isnone for None,
\* else the str result), the bytes of each stage it reached, and whether the
\* cipher was constructed (line 148) and invoked (line 149)
Outcome(isnone, res, b64ok, combined, cipher, padded, decrypted) ==
    [isnone |-> isnone, result |-> res, b64ok |-> b64ok,
     combined_data |-> combined, cipher |-> cipher,
     decrypted_padded |-> padded, decrypted |-> decrypted]

\* what unpad raises for zero-length data: ValueError where the installed
\* Crypto.Util.Padding checks the length first, IndexError where it reads
\* padded_data[-1] directly. The source pins no version.
UnpadOfEmpty == {"ValueError", "IndexError"}

\* decrypt_data(encrypted_data) for the str encrypted_data, lines 108-182
decrypt_text(encrypted_data, unpad_of_empty) ==
    LET cleaned == PadBase64(Clean(unquote(encrypted_data)))
        decoded == b64decode(cleaned)
        combined_data == decoded.bytes
        iv == IvOf(combined_data)
        ciphertext == SubSeq(combined_data, 17, Len(combined_data))
        decrypted_padded == CbcDecrypt(ciphertext, iv)
        decrypted == RemovePadding(decrypted_padded)
    IN IF ~decoded.ok
         THEN Outcome(TRUE, <<>>, FALSE, <<>>, FALSE, <<>>, <<>>)
       ELSE IF TooShort(combined_data)
         THEN Outcome(TRUE, <<>>, TRUE, combined_data, FALSE, <<>>, <<>>)
       ELSE IF Misaligned(ciphertext)
         THEN Outcome(TRUE, <<>>, TRUE, combined_data, FALSE, <<>>, <<>>)
       ELSE IF Len(combined_data) < 16 \/ Len(ciphertext) % 16 # 0
         \* AES.new or cipher.decrypt raises ValueError: line 180
         THEN Outcome(TRUE, <<>>, TRUE, combined_data, TRUE, <<>>, <<>>)
       ELSE IF decrypted_padded = <<>> /\ unpad_of_empty = "IndexError"
         \* not a ValueError: line 157 lets it through to line 180
         THEN Outcome(TRUE, <<>>, TRUE, combined_data, TRUE, <<>>, <<>>)
       ELSE Outcome(FALSE, Utf8Decode(decrypted), TRUE, combined_data, TRUE,
                    decrypted_padded, decrypted)

----------------------------------------------------------------------------
(***************************************************************************)
(* The payloads given to decrypt_data: what a producer sends (text         *)
(* encoded, padded, encrypted under the fixed key and base64 encoded),     *)
(* what the transport makes of it, and other strings.                      *)
(***************************************************************************)
\* str.encode('utf-8') for code points below 2048
RECURSIVE Utf8Encode(_)
Utf8Encode(t) ==
    IF \A i \in 1..Len(t) : t[i] < 128 THEN t
    ELSE LET k == First({i \in 1..Len(t) : t[i] >= 128})
         IN SubSeq(t, 1, k - 1)
                \o <<192 + (t[k] \div 64), 128 + (t[k] % 64)>>
                \o Utf8Encode(SubSeq(t, k + 1, Len(t)))

\* Crypto.Util.Padding.pad(data, BLOCK_SIZE)
Pkcs7Pad(b) ==
    LET n == BLOCK_SIZE - (Len(b) % BLOCK_SIZE) IN b \o Rep(n, n)

\* cipher.encrypt(data) in CBC mode, for whole blocks
RECURSIVE CbcEncrypt(_, _)
CbcEncrypt(data, prev) ==
    IF data = <<>> THEN <<>>
    ELSE LET block == EncryptBlock(XorBlock(SubSeq(data, 1, BLOCK_SIZE), prev))
         IN block \o CbcEncrypt(SubSeq(data, BLOCK_SIZE + 1, Len(data)), block)

\* the character of the base64 alphabet with the value v
B64Char(v) ==
    CASE v < 26 -> v + 65
      [] v < 52 -> v + 71
      [] v < 62 -> v - 4
      [] v = 62 -> 43
      [] OTHER -> 47

\* base64.b64encode: four characters for each group of three bytes, '='
\* where the last group has no byte
B64Encode(b) ==
    LET At(i) == IF i <= Len(b) THEN b[i] ELSE 0
        text == [i \in 1..(4 * ((Len(b) + 2) \div 3)) |->
                    LET g == 3 * ((i - 1) \div 4)
                        k == (i - 1) % 4
                    IN CASE k = 0 -> B64Char(At(g + 1) \div 4)
                         [] k = 1 -> B64Char(((At(g + 1) % 4) * 16)
                                                + (At(g + 2) \div 16))
                         [] k = 2 -> IF g + 2 > Len(b) THEN 61
                                     ELSE B64Char(((At(g + 2) % 16) * 4)
                                                     + (At(g + 3) \div 64))
                         [] OTHER -> IF g + 3 > Len(b) THEN 61
                                     ELSE B64Char(At(g + 3) % 64)]
    IN SubSeq(text, 1, Len(text))

\* the transport's damage: each '+' turned into a space, the trailing '='
\* dropped
RECURSIVE DropPad(_)
DropPad(t) == IF t # <<>> /\ Last(t) = 61 THEN DropPad(Front(t)) ELSE t
Damage(t) == DropPad(replace(t, 43, <<32>>))

Input(kind, text, plain, iv, bytes) ==
    [kind |-> kind, text |-> text, plain |-> plain, iv |-> iv, bytes |-> bytes]
NoInput == Input("none", <<>>, <<>>, <<>>, <<>>)

\* initialization vectors
IVs == {Rep(0, 16), [i \in 1..16 |-> (i * 16) - 1], Rep(255, 16)}

\* plaintexts: 'a' or e-acute repeated, then nothing, '}', or a control
\* character whose byte looks like padding
PlainTexts ==
    {Rep(c, n) \o suf :
        c \in {97, 233}, n \in 0..MaxPlainLen,
        suf \in {<<>>, <<125>>, <<0>>, <<1>>, <<16>>}}

\* what a producer sends for the text plain under the IV iv
Sent(plain, iv) ==
    B64Encode(iv \o CbcEncrypt(Pkcs7Pad(Utf8Encode(plain)), iv))

RoundTripInputs ==
    {Input("sent", Sent(plain, iv), plain, iv, <<>>) :
        plain \in PlainTexts, iv \in IVs}

\* bytes whose base64 text has '+' at its start, inside or at its end
DamagedBytes ==
    UNION {[1..n -> {0, 62, 65, 251}] : n \in 0..MaxDamagedLen}
DamagedInputs ==
    {Input("damaged", Damage(B64Encode(b)), <<>>, <<>>, b) :
        b \in DamagedBytes}

\* blobs of every length up to MaxBlobLen
BlobInputs ==
    {Input("blob", B64Encode(Rep(c, n)), <<>>, <<>>, Rep(c, n)) :
        c \in {0, 65}, n \in 0..MaxBlobLen}

\* bytes for the padding removal: 'A's, then a run of x, then a run of y,
\* on one block or after a block of 'A's
PaddedBytes ==
    {pre \o Rep(65, 16 - (i + j)) \o Rep(x, i) \o Rep(y, j) :
        pre \in {<<>>, Rep(65, 16)},
        x \in {0, 1, 3, 16, 17, 200}, y \in {0, 1, 2, 16, 17},
        i \in 0..3, j \in 0..13}
LadderInputs ==
    {Input("padded", B64Encode(iv \o CbcEncrypt(d, iv)), <<>>, iv, d) :
        d \in PaddedBytes, iv \in {Rep(255, 16)}}

\* other strings: 'A', '%41AAA', 'AA\nAA', e-acute 'AAA', ' AAAA ', 'A=AAA',
\* '%2BAAA', 'A%zAAA', '%C3%A9AAA'
OtherInputs ==
    {Input("other", t, <<>>, <<>>, <<>>) :
        t \in {<<65>>, <<37, 52, 49, 65, 65, 65>>, <<65, 65, 10, 65, 65>>,
               <<233, 65, 65, 65>>, <<32, 65, 65, 65, 65, 32>>,
               <<65, 61, 65, 65, 65>>, <<37, 50, 66, 65, 65, 65>>,
               <<65, 37, 122, 65, 65, 65>>,
               <<37, 67, 51, 37, 65, 57, 65, 65, 65>>}}

Inputs ==
    RoundTripInputs \cup DamagedInputs \cup BlobInputs \cup LadderInputs
        \cup OtherInputs

NoOutcome == Outcome(TRUE, <<>>, FALSE, <<>>, FALSE, <<>>, <<>>)

DInit ==
    /\ dpc = "idle"
    /\ din = NoInput
    /\ dout = NoOutcome

\* decrypt_data(encrypted_data) is called and returns
DecryptData(inp, unpad_of_empty) ==
    /\ dpc = "idle"
    /\ din' = inp
    /\ dout' = decrypt_text(inp.text, unpad_of_empty)
    /\ dpc' = "done"
    /\ UNCHANGED <<wvars, ivars, svars>>

\* the caller is done with the result
DecryptDone ==
    /\ dpc = "done"
    /\ dpc' = "idle"
    /\ din' = NoInput
    /\ dout' = NoOutcome
    /\ UNCHANGED <<wvars, ivars, svars>>

DNext ==
    \/ /\ dpc = "idle"
       /\ \E inp \in Inputs, e \in UnpadOfEmpty : DecryptData(inp, e)
    \/ DecryptDone

----------------------------------------------------------------------------
(***************************************************************************)
(* Claims on decrypt_data.                                                 *)
(***************************************************************************)
Decoded == dpc = "done" /\ dout.b64ok

\* C12: when the base64-decoded blob is shorter than 16 bytes, or what
\* follows its first 16 bytes has a length that is not a multiple of 16,
\* decrypt_data returns None and the cipher was neither constructed nor
\* invoked.
C12_StructuralFailureWithoutCipher ==
    (/\ Decoded
     /\ \/ Len(dout.combined_data) < 16
        \/ (Len(dout.combined_data) - 16) % 16 # 0)
        => dout.isnone /\ ~dout.cipher

C12_Witness ==
    /\ Decoded
    /\ din.kind = "blob"
    /\ Len(din.bytes) = 24
    /\ dout.combined_data = din.bytes
    /\ dout.isnone
    /\ ~dout.cipher

\* C13: for a text padded, encrypted under the fixed key in CBC mode with
\* some 16-byte IV, prefixed with the IV and base64 encoded, decrypt_data
\* returns the text, the empty text included.
C13_RoundTrip ==
    (dpc = "done" /\ din.kind = "sent")
        => ~dout.isnone /\ dout.result = din.plain

C13_Witness ==
    /\ dpc = "done"
    /\ din.kind = "sent"
    /\ din.iv # Rep(0, 16)
    /\ 233 \in {din.plain[i] : i \in 1..Len(din.plain)}
    /\ Len(dout.decrypted_padded) = 48
    /\ ~dout.isnone
    /\ dout.result = din.plain

\* C14: for the base64 text of any bytes with each '+' turned into a space
\* and the trailing '=' removed, the decoding steps of decrypt_data give
\* back the bytes, also when the text begins or ends with such a space.
C14_DamagedTextRecovered ==
    (dpc = "done" /\ din.kind = "damaged")
        => dout.b64ok /\ dout.combined_data = din.bytes

\* C15 as stated: decrypt_data returns a value only when what follows the
\* IV is a positive multiple of 16 bytes long, and a blob of exactly 16
\* bytes gives None without the cipher being constructed or invoked.
C15_EmptyCipherBlockNotAttempted ==
    Decoded =>
        /\ ~dout.isnone =>
              /\ Len(dout.combined_data) > 16
              /\ (Len(dout.combined_data) - 16) % 16 = 0
        /\ Len(dout.combined_data) = 16 => dout.isnone /\ ~dout.cipher

\* C15 amended: decrypt_data returns a non-empty text only when what
\* follows the IV is a positive multiple of 16 bytes long; on a blob of
\* exactly 16 bytes the cipher is constructed and invoked on the empty
\* ciphertext, nothing is decrypted, and the call returns None or the empty
\* text.
C15_EmptyCipherBlockYieldsNoText ==
    Decoded =>
        /\ (~dout.isnone /\ dout.result # <<>>) =>
              /\ Len(dout.combined_data) > 16
              /\ (Len(dout.combined_data) - 16) % 16 = 0
        /\ Len(dout.combined_data) = 16 =>
              /\ dout.cipher
              /\ dout.decrypted_padded = <<>>
              /\ dout.isnone \/ dout.result = <<>>

C15_Witness ==
    /\ Decoded
    /\ Len(dout.combined_data) = 16
    /\ dout.cipher
    /\ ~dout.isnone
    /\ dout.result = <<>>

\* C16: with D the decrypted bytes and n the last of them, if n is in
\* 1..16 and the last n bytes all equal n, exactly those n bytes are
\* removed; otherwise the trailing zero bytes are removed and then, if the
\* new last byte m is in 1..16, the last m bytes (all, when fewer remain),
\* else nothing more. What is left is a prefix of D.
C16_PaddingLadder ==
    (dpc = "done" /\ ~dout.isnone) =>
        LET D == dout.decrypted_padded
            R == dout.decrypted
            n == D[Len(D)]
            pkcs ==
                /\ D # <<>>
                /\ n \in 1..16
                /\ \A i \in (Len(D) - n + 1)..Len(D) : D[i] = n
            k == CHOOSE j \in 0..Len(D) :
                    /\ j = 0 \/ D[j] # 0
                    /\ \A i \in (j + 1)..Len(D) : D[i] = 0
            m == D[k]
        IN /\ pkcs => R = SubSeq(D, 1, Len(D) - n)
           /\ ~pkcs =>
                IF k > 0 /\ m \in 1..16
                  THEN R = SubSeq(D, 1, IF k > m THEN k - m ELSE 0)
                  ELSE R = SubSeq(D, 1, k)
           /\ Len(R) <= Len(D)
           /\ R = SubSeq(D, 1, Len(R))

C16_Witness ==
    /\ dpc = "done"
    /\ ~dout.isnone
    /\ din.kind = "padded"
    /\ dout.decrypted_padded = Rep(65, 13) \o <<3, 0, 0>>
    /\ dout.decrypted = Rep(65, 11)

----------------------------------------------------------------------------
(***************************************************************************)
(* Sessions: login, logout and the admin reset of active_sessions          *)
(***************************************************************************)
Browsers == 1..NBrowsers

\* the rows of the users table: the default admin and one ordinary user
Users == {"admin", "alice"}
RoleOf(u) == IF u = "admin" THEN "admin" ELSE "user"

\* an empty Flask session
NoSession == [user_id |-> "", role |-> ""]
NoOp == [op |-> "none", user |-> "", ok |-> FALSE, stale |-> FALSE]

SInit ==
    /\ active_sessions = [u \in Users |-> 0]
    /\ session = [b \in Browsers |-> NoSession]
    /\ spc = [b \in Browsers |-> "idle"]
    /\ slogin = [b \in Browsers |-> ""]
    /\ sop = NoOp
    /\ stale = [b \in Browsers |-> FALSE]

\* POST /login, lines 210-221: the user row is selected and the password
\* verified; found tells that the row exists and the password matches
LoginSelect(b, u, found) ==
    /\ spc[b] = "idle"
    /\ IF found
         THEN /\ spc' = [spc EXCEPT ![b] = "L225"]
              /\ slogin' = [slogin EXCEPT ![b] = u]
         ELSE UNCHANGED <<spc, slogin>>
    /\ sop' = [op |-> "select", user |-> u, ok |-> found, stale |-> FALSE]
    /\ UNCHANGED <<active_sessions, session, stale>>
    /\ UNCHANGED <<wvars, ivars, dvars>>

\* lines 223-233: UPDATE users SET active_sessions = active_sessions + 1,
\* then the session is filled
LoginUpdate(b) ==
    /\ spc[b] = "L225"
    /\ active_sessions[slogin[b]] < MaxSessions
    /\ active_sessions' =
           [active_sessions EXCEPT ![slogin[b]] = @ + 1]
    /\ session' = [session EXCEPT
                      ![b] = [user_id |-> slogin[b], role |-> RoleOf(slogin[b])]]
    /\ spc' = [spc EXCEPT ![b] = "idle"]
    /\ sop' = [op |-> "login", user |-> slogin[b], ok |-> TRUE,
               stale |-> FALSE]
    /\ stale' = [stale EXCEPT ![b] = FALSE]
    /\ UNCHANGED slogin
    /\ UNCHANGED <<wvars, ivars, dvars>>

\* GREATEST(active_sessions - 1, 0) without the GREATEST
Decrement_unguarded(n) == n - 1

\* GREATEST(active_sessions - 1, 0)
Decrement(n) == IF n - 1 > 0 THEN n - 1 ELSE 0

\* GET /logout, lines 242-257; dbok tells whether the UPDATE went through
\* (an exception is printed and swallowed)
Logout(b, dbok) ==
    /\ spc[b] = "idle"
    /\ IF session[b].user_id # "" /\ dbok
         THEN active_sessions' =
                  [active_sessions EXCEPT ![session[b].user_id] = Decrement(@)]
         ELSE UNCHANGED active_sessions
    /\ sop' = IF session[b].user_id # ""
                THEN [op |-> "logout", user |-> session[b].user_id, ok |-> dbok,
                      stale |-> stale[b]]
                ELSE NoOp
    /\ session' = [session EXCEPT ![b] = NoSession]
    /\ stale' = [stale EXCEPT ![b] = FALSE]
    /\ UNCHANGED <<spc, slogin>>
    /\ UNCHANGED <<wvars, ivars, dvars>>

\* POST /api/reset-sessions, lines 669-685: login_required, admin only,
\* UPDATE users SET active_sessions = 0; the sessions themselves stay
ResetSessions(b, dbok) ==
    /\ spc[b] = "idle"
    /\ session[b].user_id # ""
    /\ IF session[b].role = "admin" /\ dbok
         THEN /\ active_sessions' = [u \in Users |-> 0]
              /\ stale' = [x \in Browsers |-> session[x].user_id # ""]
         ELSE UNCHANGED <<active_sessions, stale>>
    /\ sop' = IF session[b].role = "admin"
                THEN [op |-> "reset", user |-> session[b].user_id, ok |-> dbok,
                      stale |-> FALSE]
                ELSE [op |-> "forbidden", user |-> session[b].user_id,
                      ok |-> FALSE, stale |-> FALSE]
    /\ UNCHANGED <<session, spc, slogin>>
    /\ UNCHANGED <<wvars, ivars, dvars>>

SNext ==
    \/ \E b \in Browsers, u \in Users, found \in BOOLEAN :
          LoginSelect(b, u, found)
    \/ \E b \in Browsers : LoginUpdate(b)
    \/ \E b \in Browsers, dbok \in BOOLEAN : Logout(b, dbok)
    \/ \E b \in Browsers, dbok \in BOOLEAN : ResetSessions(b, dbok)

\* C17: every user's active_sessions is at least 0 after every step: a
\* successful login adds 1, a logout subtracts 1 but stops at 0, a reset
\* sets every counter to 0
C17_SessionsNeverNegative ==
    [][/\ \A u \in Users : active_sessions'[u] >= 0
       /\ sop'.op = "login" =>
            active_sessions'[sop'.user] = active_sessions[sop'.user] + 1
       /\ (sop'.op = "logout" /\ sop'.ok) =>
            /\ active_sessions[sop'.user] > 0 =>
                 active_sessions'[sop'.user] = active_sessions[sop'.user] - 1
            /\ active_sessions[sop'.user] = 0 =>
                 active_sessions'[sop'.user] = 0
       /\ (sop'.op = "reset" /\ sop'.ok) =>
            \A u \in Users : active_sessions'[u] = 0]_vars

\* a session opened before a reset has logged out after it: the counter,
\* already 0, stayed 0, while another browser is still logged in
C17_Witness ==
    /\ sop = [op |-> "logout", user |-> "alice", ok |-> TRUE, stale |-> TRUE]
    /\ active_sessions["alice"] = 0
    /\ \E b \in Browsers : session[b].role = "admin"
    /\ \E b \in Browsers : session[b] = NoSession

WNext ==
    \/ \E d \in TickSteps : Tick(d)
    \/ \E p \in Threads, loc \in Locations : GetWeather(p, loc)
    \/ \E p \in Threads : L550(p)
    \/ \E p \in Threads : L551(p)
    \/ \E p \in Threads : L552(p)
    \/ \E p \in Threads : L562(p)
    \/ \E p \in Threads, o \in FetchOutcomes : Respond(p, o)
    \/ \E p \in Threads : L563(p)

Init == WInit /\ IInit /\ SInit /\ DInit
Next == WNext \/ INext \/ SNext \/ DNext

SpecWeather == Init /\ [][WNext]_vars
SpecIngest == Init /\ [][INext]_vars
SpecSessions == Init /\ [][SNext]_vars
SpecDecrypt == Init /\ [][DNext]_vars
Spec == Init /\ [][Next]_vars

====
